---- MODULE Spec2Model ----
(***************************************************************************)
(* Model of the resume-processor API.                                      *)
(*   src/main.py               format_docx, docx_to_json, json_to_docx,    *)
(*                             process_resume (POST /process-resume/)      *)
(*   src/document_formatter.py ResumeFormatter, DocumentFormatter          *)
(* A Python str is a sequence of one-character strings; a dict is a record *)
(* [keys, val] that keeps the insertion order of its keys.                 *)
(***************************************************************************)
EXTENDS Integers, Sequences, FiniteSets, TLC

VARIABLES
    \* ---- docx_to_json / json_to_docx run on one document (SpecExtract)
    paras,            \* doc.paragraphs of the document being converted
    idx,              \* position of the for loop of docx_to_json
    current_section,  \* local of docx_to_json
    section_content,  \* local of docx_to_json
    sections,         \* json_data["sections"] of docx_to_json
    context,          \* context built by json_to_docx
    xpc,              \* position of the conversion
    \* ---- one POST /process-resume/ request (Spec)
    pc,               \* position inside process_resume
    request,          \* file.filename, job_description, uploaded content
    json_data,        \* json_data["sections"] as extracted
    attempt,          \* loop variable of the retry loop
    optimized_json,   \* local optimized_json (Unbound until json.loads returns)
    rendered,         \* context rendered into template_doc by json_to_docx
    raised,           \* the exception raised inside the try block of process_resume
    response,         \* what the caller receives
    events,           \* calls made to the collaborators, in order
    \* ---- DocumentFormatter instance (SpecFormatter)
    formatter_doc,    \* self.resume_formatter.doc: paragraphs of the shared Document
    calls,            \* number of process_and_save calls made
    last_input,       \* paragraphs of the file given to the last call
    last_output       \* paragraphs of the document the last call produced

extract_vars   == <<paras, idx, current_section, section_content, sections, context, xpc>>
request_vars   == <<pc, request, json_data, attempt, optimized_json,
                    rendered, raised, response, events>>
formatter_vars == <<formatter_doc, calls, last_input, last_output>>
vars == <<extract_vars, request_vars, formatter_vars>>

-----------------------------------------------------------------------------
(* Python str methods, on sequences of characters                          *)

UPPER == <<"A","B","C","D","E","F","G","H","I","J","K","L","M",
           "N","O","P","Q","R","S","T","U","V","W","X","Y","Z">>
LOWER == <<"a","b","c","d","e","f","g","h","i","j","k","l","m",
           "n","o","p","q","r","s","t","u","v","w","x","y","z">>
DIGITS == {"0","1","2","3","4","5","6","7","8","9"}

IsUpperChar(c) == \E i \in DOMAIN UPPER : UPPER[i] = c
IsLowerChar(c) == \E i \in DOMAIN LOWER : LOWER[i] = c
IsSpaceChar(c) == c \in {" ", "\t", "\n"}
\* \w of the re module
IsWordChar(c)  == IsUpperChar(c) \/ IsLowerChar(c) \/ c \in DIGITS \/ c = "_"

LowerChar(c) ==
    IF IsUpperChar(c) THEN LOWER[CHOOSE i \in DOMAIN UPPER : UPPER[i] = c] ELSE c

\* str.isupper(): at least one cased character and no lower-case one
isupper(s) ==
    /\ \E i \in DOMAIN s : IsUpperChar(s[i])
    /\ \A i \in DOMAIN s : ~IsLowerChar(s[i])

lower(s) == [i \in DOMAIN s |-> LowerChar(s[i])]

strip(s) ==
    LET keep == {i \in DOMAIN s : ~IsSpaceChar(s[i])}
    IN  IF keep = {} THEN <<>>
        ELSE LET lo == CHOOSE i \in keep : \A j \in keep : i <= j
                 hi == CHOOSE i \in keep : \A j \in keep : i >= j
             IN  SubSeq(s, lo, hi)

\* str.strip('_')
strip_underscore(s) ==
    LET keep == {i \in DOMAIN s : s[i] # "_"}
    IN  IF keep = {} THEN <<>>
        ELSE LET lo == CHOOSE i \in keep : \A j \in keep : i <= j
                 hi == CHOOSE i \in keep : \A j \in keep : i >= j
             IN  SubSeq(s, lo, hi)

endswith(s, suffix) ==
    /\ Len(suffix) <= Len(s)
    /\ SubSeq(s, Len(s) - Len(suffix) + 1, Len(s)) = suffix

startswith(s, prefix) ==
    /\ Len(prefix) <= Len(s)
    /\ SubSeq(s, 1, Len(prefix)) = prefix

\* sub in s
contains(s, sub) ==
    \E i \in 1..(Len(s) - Len(sub) + 1) : SubSeq(s, i, i + Len(sub) - 1) = sub

\* s.replace(c, '') for a one-character c
remove_char(s, c) == SelectSeq(s, LAMBDA ch : ch # c)

\* re.sub(r'[^\w]', '_', s)
sub_nonword(s) == [i \in DOMAIN s |-> IF IsWordChar(s[i]) THEN s[i] ELSE "_"]

\* re.sub(r'[^\w\-\.]', '_', s)
sub_unsafe(s) ==
    [i \in DOMAIN s |-> IF IsWordChar(s[i]) \/ s[i] \in {"-", "."} THEN s[i] ELSE "_"]

RECURSIVE join(_, _)
\* sep.join(lines)
join(sep, lines) ==
    IF lines = <<>> THEN <<>>
    ELSE IF Len(lines) = 1 THEN lines[1]
    ELSE lines[1] \o sep \o join(sep, Tail(lines))

-----------------------------------------------------------------------------
(* Python dict: insertion-ordered keys and their values                    *)

EmptyDict == [t |-> "dict", keys |-> <<>>, val |-> <<>>]

Keys(d) == {d.keys[i] : i \in DOMAIN d.keys}

HasKey(d, k) == k \in Keys(d)

Get(d, k) == d.val[CHOOSE i \in DOMAIN d.keys : d.keys[i] = k]

\* d[k] = v: an existing key keeps its position
Put(d, k, v) ==
    IF HasKey(d, k)
    THEN [d EXCEPT !.val[CHOOSE i \in DOMAIN d.keys : d.keys[i] = k] = v]
    ELSE [d EXCEPT !.keys = Append(@, k), !.val = Append(@, v)]

\* None, for a variable that otherwise holds a str
None == <<"None">>

-----------------------------------------------------------------------------
(* Literals of the source                                                  *)

BULLET == "*b"   \* the character U+2022
SUMMARY_KW    == <<"s","u","m","m","a","r","y">>
EXPERIENCE_KW == <<"e","x","p","e","r","i","e","n","c","e">>
EDUCATION_KW  == <<"e","d","u","c","a","t","i","o","n">>
SKILLS_KW     == <<"s","k","i","l","l","s">>
CONTACT_KW    == <<"c","o","n","t","a","c","t">>
OBJECTIVE_KW  == <<"o","b","j","e","c","t","i","v","e">>
HEADER_KEY    == <<"h","e","a","d","e","r">>
DOCX_SUFFIX   == <<".","d","o","c","x">>

\* bool(s) of a variable holding a str or None
truthy(s) == s # None /\ s # <<>>

-----------------------------------------------------------------------------
(* docx_to_json: paragraphs to sections                                     *)

\* A paragraph of a Document: its text and, per run, the bold and italic flags.
\* A JSON value carries its Python type in the field t.

section_keywords ==
    { SUMMARY_KW,
      EXPERIENCE_KW,
      EDUCATION_KW,
      SKILLS_KW,
      CONTACT_KW,
      OBJECTIVE_KW }

\* variant: a capital first letter is taken for an upper-case line
is_section_header_capitalized(text) ==
    \/ (text # <<>> /\ IsUpperChar(text[1]))
    \/ endswith(text, <<":">>)
    \/ \E header \in section_keywords : contains(lower(text), header)

\* the section header test of docx_to_json
is_section_header(text) ==
    \/ isupper(text)
    \/ endswith(text, <<":">>)
    \/ \E header \in section_keywords : contains(lower(text), header)

\* any(run.bold for run in paragraph.runs)
any_bold(paragraph)   == \E i \in DOMAIN paragraph.runs : paragraph.runs[i].bold
any_italic(paragraph) == \E i \in DOMAIN paragraph.runs : paragraph.runs[i].italic

section_entry(content) == [t |-> "dict", content |-> content, style |-> "regular"]

\* if current_section and section_content: json_data["sections"][current_section] = ...
flush_section(st) ==
    IF truthy(st.current_section) /\ st.section_content # <<>>
    THEN [st EXCEPT !.sections = Put(@, st.current_section,
                                     section_entry(st.section_content))]
    ELSE st

\* the section key a header opens
section_key(text) == strip(remove_char(lower(text), ":"))

\* variant: the body buffer is not emptied when a header is met
open_section_keep_body(st, text) ==
    [flush_section(st) EXCEPT !.current_section = section_key(text)]

\* the branch taken for a header paragraph
open_section(st, text) ==
    LET flushed == flush_section(st)
        reset   == IF truthy(st.current_section) /\ st.section_content # <<>>
                   THEN [flushed EXCEPT !.section_content = <<>>]
                   ELSE flushed
    IN  [reset EXCEPT !.current_section = section_key(text)]

para_data(paragraph, text) ==
    [t |-> "dict",
     text |-> text,
     style |-> IF startswith(text, <<BULLET>>) THEN "bullet" ELSE "regular",
     formatting |-> [bold |-> any_bold(paragraph), italic |-> any_italic(paragraph)]]

header_data(text) ==
    [t |-> "dict", text |-> text, style |-> "regular", formatting |-> [bold |-> TRUE]]

\* the branch taken for any other paragraph
add_content(st, paragraph, text) ==
    IF truthy(st.current_section)
    THEN [st EXCEPT !.section_content = Append(@, para_data(paragraph, text))]
    ELSE [st EXCEPT !.current_section = HEADER_KEY,
                    !.section_content = Append(@, header_data(text))]

\* one iteration of "for paragraph in doc.paragraphs"
docx_to_json_step(st, paragraph) ==
    LET text == strip(paragraph.text)
    IN  IF text = <<>> THEN st
        ELSE IF is_section_header(text) THEN open_section(st, text)
        ELSE add_content(st, paragraph, text)

docx_to_json_init ==
    [sections |-> EmptyDict, current_section |-> None, section_content |-> <<>>]

RECURSIVE docx_to_json_loop(_, _)
docx_to_json_loop(st, ps) ==
    IF ps = <<>> THEN st
    ELSE docx_to_json_loop(docx_to_json_step(st, Head(ps)), Tail(ps))

\* docx_to_json(doc): ok is FALSE when it raises (HTTPException 500)
docx_to_json(ps) ==
    IF ps = <<>> THEN [ok |-> FALSE, sections |-> EmptyDict]
    ELSE [ok |-> TRUE,
          sections |-> flush_section(docx_to_json_loop(docx_to_json_init, ps)).sections]

-----------------------------------------------------------------------------
(* json_to_docx: sections to the template context                          *)

\* d.get(name) of a dict modelled as a record, None read as False
flag(d, name) == IF name \in DOMAIN d THEN d[name] ELSE FALSE

\* bool(v) of a JSON value
json_truthy(v) ==
    CASE v.t = "dict" -> v.keys # <<>>
      [] v.t = "list" -> v.items # <<>>
      [] v.t = "str"  -> v.chars # <<>>
      [] OTHER        -> FALSE

\* the text json_to_docx emits for one content item
format_item(item) ==
    LET text     == strip(item.text)
        bulleted == IF /\ "style" \in DOMAIN item
                       /\ item.style = "bullet"
                       /\ ~startswith(text, <<BULLET>>)
                    THEN <<BULLET, " ">> \o text ELSE text
        fmt      == IF "formatting" \in DOMAIN item THEN item.formatting ELSE [none |-> TRUE]
        bolded   == IF flag(fmt, "bold") THEN <<"*","*">> \o bulleted \o <<"*","*">>
                    ELSE bulleted
    IN  IF flag(fmt, "italic") THEN <<"*">> \o bolded \o <<"*">> ELSE bolded

\* items that are dicts with a non-blank text
is_text_item(item) ==
    /\ item.t = "dict"
    /\ "text" \in DOMAIN item
    /\ strip(item.text) # <<>>

RECURSIVE formatted_content(_)
formatted_content(content) ==
    IF content = <<>> THEN <<>>
    ELSE IF is_text_item(Head(content))
         THEN <<format_item(Head(content))>> \o formatted_content(Tail(content))
         ELSE formatted_content(Tail(content))

is_valid_section(section_data) ==
    section_data.t = "dict" /\ "content" \in DOMAIN section_data

template_var(section_name) == sub_nonword(lower(section_name))

RECURSIVE build_context(_, _, _)
\* for section_name, section_data in sections.items(), from position i
build_context(secs, i, ctx) ==
    IF i > Len(secs.keys) THEN ctx
    ELSE IF ~is_valid_section(secs.val[i]) THEN build_context(secs, i + 1, ctx)
    ELSE build_context(secs, i + 1,
             Put(ctx, template_var(secs.keys[i]),
                 join(<<"\n">>, formatted_content(secs.val[i].content))))

\* json_to_docx up to template_doc.render: ok is FALSE when it raises
json_to_docx(secs) ==
    IF ~json_truthy(secs) THEN [ok |-> FALSE, context |-> EmptyDict]
    ELSE IF secs.t # "dict" THEN [ok |-> FALSE, context |-> EmptyDict]
    ELSE [ok |-> TRUE, context |-> build_context(secs, 1, EmptyDict)]

-----------------------------------------------------------------------------
(* Inputs: paragraph texts and documents                                   *)

T_SUMMARY      == <<"S","U","M","M","A","R","Y">>
T_EXPERIENCED  == <<"E","x","p","e","r","i","e","n","c","e","d"," ","e","n","g","i","n","e","e","r",".">>
T_SKILLS       == <<"S","K","I","L","L","S">>
T_PYTHON       == <<"P","y","t","h","o","n">>
T_GO           == <<"G","o">>
T_NOTES_COLON  == <<"N","o","t","e","s",":">>
T_NOTES        == <<"N","O","T","E","S">>
T_COLON        == <<":">>
T_BLANK        == <<" ">>
T_BULLET       == <<"*b"," ","L","e","d">>
T_NAME         == <<" ","J","o","h","n"," ","D","o","e">>
T_INNER        == <<"J","o","b","s",":"," ","I","T",":">>

Texts ==
    { T_SUMMARY, T_EXPERIENCED, T_SKILLS, T_NOTES_COLON, T_NOTES,
      T_COLON, T_BLANK, T_BULLET, T_NAME, T_INNER }

plain_run  == [bold |-> FALSE, italic |-> FALSE]
bold_run   == [bold |-> TRUE,  italic |-> FALSE]
italic_run == [bold |-> FALSE, italic |-> TRUE]

Para(text, runs) == [text |-> text, runs |-> runs]

\* every text in one plain run, and some texts in formatted runs
ParaPool ==
    {Para(text, <<plain_run>>) : text \in Texts}
      \cup {Para(T_PYTHON, <<plain_run, bold_run>>), Para(T_GO, <<italic_run>>)}

MaxParas == 3

RECURSIVE SeqsUpTo(_, _)
\* the sequences over S of length at most n
SeqsUpTo(S, n) ==
    IF n = 0 THEN {<<>>}
    ELSE LET shorter == SeqsUpTo(S, n - 1)
         IN  shorter \cup {Append(q, x) : q \in {r \in shorter : Len(r) = n - 1}, x \in S}

\* the document of the end-to-end scenario
ExampleDoc ==
    << Para(T_SUMMARY, <<plain_run>>), Para(T_EXPERIENCED, <<plain_run>>),
       Para(T_SKILLS, <<plain_run>>), Para(T_PYTHON, <<plain_run>>),
       Para(T_GO, <<plain_run>>) >>

Documents == SeqsUpTo(ParaPool, MaxParas) \cup {ExampleDoc}

-----------------------------------------------------------------------------
(* States in which a part of the program is not running                    *)

Unbound == [t |-> "unbound"]
NoResponse == [status |-> 0]
NotRaised == [exc |-> "none", status |-> 0, at |-> "none"]

ExtractIdle ==
    /\ paras = <<>> /\ idx = 1 /\ current_section = None /\ section_content = <<>>
    /\ sections = EmptyDict /\ context = EmptyDict /\ xpc = "idle"

RequestIdle ==
    /\ pc = "idle" /\ request = [t |-> "none"] /\ json_data = EmptyDict
    /\ attempt = 0 /\ optimized_json = Unbound
    /\ rendered = EmptyDict /\ raised = NotRaised /\ response = NoResponse /\ events = <<>>

FormatterIdle ==
    /\ formatter_doc = <<>> /\ calls = 0 /\ last_input = <<>>
    /\ last_output = [status |-> "none", document |-> <<>>]

-----------------------------------------------------------------------------
(* SpecExtract: docx_to_json on a document, then json_to_docx on its result *)

InitExtract ==
    /\ paras \in Documents
    /\ idx = 1
    /\ current_section = None
    /\ section_content = <<>>
    /\ sections = EmptyDict
    /\ context = EmptyDict
    /\ xpc = "start"
    /\ RequestIdle
    /\ FormatterIdle

extract_state ==
    [sections |-> sections, current_section |-> current_section,
     section_content |-> section_content]

\* docx_to_json raises on a document without paragraphs
DocxToJsonEmpty ==
    /\ xpc = "start"
    /\ paras = <<>>
    /\ xpc' = "failed"
    /\ UNCHANGED <<paras, idx, current_section, section_content, sections, context>>
    /\ UNCHANGED <<request_vars, formatter_vars>>

DocxToJsonEnter ==
    /\ xpc = "start"
    /\ paras # <<>>
    /\ xpc' = "loop"
    /\ UNCHANGED <<paras, idx, current_section, section_content, sections, context>>
    /\ UNCHANGED <<request_vars, formatter_vars>>

\* one iteration of the loop over doc.paragraphs
DocxToJsonStep ==
    /\ xpc = "loop"
    /\ idx <= Len(paras)
    /\ LET st == docx_to_json_step(extract_state, paras[idx])
       IN  /\ sections' = st.sections
           /\ current_section' = st.current_section
           /\ section_content' = st.section_content
    /\ idx' = idx + 1
    /\ UNCHANGED <<paras, context, xpc>>
    /\ UNCHANGED <<request_vars, formatter_vars>>

\* "Add the last section" and return
DocxToJsonReturn ==
    /\ xpc = "loop"
    /\ idx > Len(paras)
    /\ sections' = flush_section(extract_state).sections
    /\ xpc' = "extracted"
    /\ UNCHANGED <<paras, idx, current_section, section_content, context>>
    /\ UNCHANGED <<request_vars, formatter_vars>>

\* json_to_docx on the extracted sections, not rewritten
JsonToDocx ==
    /\ xpc = "extracted"
    /\ LET r == json_to_docx(sections)
       IN  /\ context' = r.context
           /\ xpc' = IF r.ok THEN "rendered" ELSE "render_failed"
    /\ UNCHANGED <<paras, idx, current_section, section_content, sections>>
    /\ UNCHANGED <<request_vars, formatter_vars>>

NextExtract ==
    \/ DocxToJsonEmpty
    \/ DocxToJsonEnter
    \/ DocxToJsonStep
    \/ DocxToJsonReturn
    \/ JsonToDocx

SpecExtract == InitExtract /\ [][NextExtract]_vars

-----------------------------------------------------------------------------
(* Properties of docx_to_json and json_to_docx                             *)

\* the trimmed texts of the non-blank paragraphs, in order
RECURSIVE lines_of(_)
lines_of(ps) ==
    IF ps = <<>> THEN <<>>
    ELSE IF strip(Head(ps).text) = <<>> THEN lines_of(Tail(ps))
    ELSE <<strip(Head(ps).text)>> \o lines_of(Tail(ps))

\* the texts of a section's content items, in order
body_texts(entry) == [i \in DOMAIN entry.content |-> entry.content[i].text]

\* a heading line as the specification words it: upper-case or colon-terminated
is_plain_heading(text) == isupper(text) \/ endswith(text, <<":">>)

\* the positions of the plain headings in a sequence of lines
plain_headings(ls) == {i \in DOMAIN ls : is_plain_heading(ls[i])}

\* the body lines that follow the heading at position i, up to the next heading
body_after(ls, i) ==
    LET later == {j \in plain_headings(ls) : j > i}
        stop  == IF later = {} THEN Len(ls) + 1
                 ELSE CHOOSE j \in later : \A k \in later : j <= k
    IN  SubSeq(ls, i + 1, stop - 1)

\* headings with distinct non-empty keys, each followed by at least one body line
heading_body_shape(ps) ==
    LET ls == lines_of(ps)
    IN  /\ Len(ls) = Len(ps)
        /\ ls # <<>>
        /\ is_plain_heading(ls[1])
        /\ \A i \in plain_headings(ls) :
              /\ body_after(ls, i) # <<>>
              /\ section_key(ls[i]) # <<>>
              /\ \A j \in plain_headings(ls) :
                    section_key(ls[j]) = section_key(ls[i]) => j = i

\* C6 (as claimed): a sequence of headings, each followed by body lines, yields
\* one entry per heading, keyed by the normalized heading, holding exactly the
\* body lines up to the next heading, in order.
C6_HeadingBodies ==
    (xpc = "extracted" /\ heading_body_shape(paras)) =>
        LET ls == lines_of(paras)
        IN  /\ Keys(sections) = {section_key(ls[i]) : i \in plain_headings(ls)}
            /\ \A i \in plain_headings(ls) :
                  /\ HasKey(sections, section_key(ls[i]))
                  /\ body_texts(Get(sections, section_key(ls[i]))) = body_after(ls, i)

\* C7 (as claimed): json_to_docx on the unmodified extracted map gives every
\* section key its body lines joined by newline, verbatim.
C7_RoundTripVerbatim ==
    xpc = "rendered" =>
        \A k \in Keys(sections) :
            /\ HasKey(context, k)
            /\ Get(context, k) = join(<<"\n">>, body_texts(Get(sections, k)))

\* a heading line: upper-case, colon-terminated, or naming a resume section
is_heading_line(text) ==
    \/ is_plain_heading(text)
    \/ \E name \in section_keywords : contains(lower(text), name)

\* the distinct heading lines of a document
heading_lines(ps) ==
    LET ls == lines_of(ps)
    IN  {ls[i] : i \in {j \in DOMAIN ls : is_heading_line(ls[j])}}

\* the paragraphs docx_to_json has consumed so far
seen_paras == SubSeq(paras, 1, idx - 1)

\* C9 (as claimed): the section map never has more entries than the number of
\* distinct heading lines of the paragraph sequence.
C9_EntriesAtMostHeadings ==
    xpc = "extracted" => Cardinality(Keys(sections)) <= Cardinality(heading_lines(paras))

\* 1 when text comes before the first heading line, else 0
leading_text(ps) ==
    LET ls == lines_of(ps)
    IN  IF ls # <<>> /\ ~is_heading_line(ls[1]) THEN 1 ELSE 0

\* C9 (amended): the section map has at most one entry per distinct heading
\* line, plus the "header" entry when text precedes the first heading line.
C9_EntriesAtMostHeadingsPlusHeader ==
    xpc \in {"loop", "extracted"} =>
        Cardinality(Keys(sections))
            <= Cardinality(heading_lines(seen_paras)) + leading_text(seen_paras)

\* C9 witness: a header entry next to the entry of a heading line
C9_Witness ==
    /\ xpc = "extracted"
    /\ leading_text(paras) = 1
    /\ Cardinality(heading_lines(paras)) >= 1
    /\ Cardinality(Keys(sections)) = Cardinality(heading_lines(paras)) + 1

-----------------------------------------------------------------------------
(* Spec: one request to POST /process-resume/                              *)

\* variant: one attempt more than the loop is meant to make
max_retries_4 == 3 + 1

max_retries == 3
retry_delay == 1

F_DOCX == <<"c","v"," ","1",".","d","o","c","x">>
F_PDF  == <<"c","v",".","p","d","f">>
Filenames == {F_DOCX, F_PDF}

JD_EMPTY == <<>>
JD_BLANK == <<" ">>
JD_TEXT  == <<"G","o"," ","d","e","v">>
JobDescriptions == {JD_EMPTY, JD_BLANK, JD_TEXT}

\* uploaded bytes: none, bytes that are no docx package, or a docx document
EmptyUpload   == [empty |-> TRUE,  valid |-> FALSE, paragraphs |-> <<>>]
CorruptUpload == [empty |-> FALSE, valid |-> FALSE, paragraphs |-> <<>>]
DocxUpload(ps) == [empty |-> FALSE, valid |-> TRUE, paragraphs |-> ps]

RequestDocs ==
    { <<>>,
      << Para(T_SKILLS, <<plain_run>>), Para(T_PYTHON, <<plain_run, bold_run>>) >>,
      << Para(T_NAME, <<plain_run>>), Para(T_SKILLS, <<plain_run>>),
         Para(T_BULLET, <<plain_run>>) >> }

Uploads == {EmptyUpload, CorruptUpload} \cup {DocxUpload(ps) : ps \in RequestDocs}

InitRequest ==
    /\ request \in [filename : Filenames, job_description : JobDescriptions,
                    content : Uploads]
    /\ pc = "start"
    /\ json_data = EmptyDict
    /\ attempt = 0
    /\ optimized_json = Unbound
    /\ rendered = EmptyDict
    /\ raised = NotRaised
    /\ response = NoResponse
    /\ events = <<>>

Init == InitRequest /\ ExtractIdle /\ FormatterIdle

\* raise HTTPException(status_code=...) inside the try block
HTTPException(status, at) == [exc |-> "HTTPException", status |-> status, at |-> at]
\* any other exception raised inside the try block
Exception(at) == [exc |-> "Exception", status |-> 0, at |-> at]

\* the handler "except Exception as e" that closes process_resume
error_status(e) == 500

\* an exception leaves the try block: the request ends with the handler's answer
Fails(e) ==
    /\ raised' = e
    /\ response' = [status |-> error_status(e)]
    /\ pc' = "done"

\* filename = re.sub(...).strip('_').strip()
safe_filename(name) == strip(strip_underscore(sub_unsafe(name)))

\* timestamp = datetime.now().strftime("%Y%m%d_%H%M%S"): read once per request
timestamp == <<"2","0","2","4","0","1","0","1","_","0","0","0","0","0","0">>
JSON_SUFFIX == <<".","j","s","o","n">>

\* original_json_path = f"original_{timestamp}_{filename}.json"
original_json_path(name) ==
    <<"o","r","i","g","i","n","a","l","_">> \o timestamp \o <<"_">>
        \o safe_filename(name) \o JSON_SUFFIX

\* optimized_json_path = f"optimized_{timestamp}_{filename}.json"
optimized_json_path(name) ==
    <<"o","p","t","i","m","i","z","e","d","_">> \o timestamp \o <<"_">>
        \o safe_filename(name) \o JSON_SUFFIX

\* variant: the upload is stored before it is checked
ValidateRequestAfterStore ==
    /\ pc = "start"
    /\ events' = Append(events, [op |-> "upload", what |-> "original", ok |-> TRUE,
                                 path |-> original_json_path(request.filename)])
    /\ IF \/ ~endswith(request.filename, DOCX_SUFFIX)
          \/ strip(request.job_description) = <<>>
          \/ request.content.empty
         THEN Fails(HTTPException(400, "validate"))
         ELSE pc' = "convert" /\ UNCHANGED <<raised, response>>
    /\ UNCHANGED <<request, json_data, attempt, optimized_json, rendered>>
    /\ UNCHANGED <<extract_vars, formatter_vars>>

\* the three checks on the upload, before anything else is done
ValidateRequest ==
    /\ pc = "start"
    /\ IF ~endswith(request.filename, DOCX_SUFFIX)
         THEN Fails(HTTPException(400, "validate"))
       ELSE IF strip(request.job_description) = <<>>
         THEN Fails(HTTPException(400, "validate"))
       ELSE IF request.content.empty
         THEN Fails(HTTPException(400, "validate"))
       ELSE /\ pc' = "convert"
            /\ UNCHANGED <<raised, response>>
    /\ UNCHANGED <<request, json_data, attempt, optimized_json, rendered, events>>
    /\ UNCHANGED <<extract_vars, formatter_vars>>

\* format_docx(doc): raises on a document without paragraphs
format_docx(ps) == [ok |-> ps # <<>>, paragraphs |-> ps]

\* Document(BytesIO(content)), format_docx, DocxTemplate, docx_to_json
ConvertDocument ==
    /\ pc = "convert"
    /\ IF ~request.content.valid
         THEN Fails(Exception("parse")) /\ UNCHANGED json_data
       ELSE LET doc == format_docx(request.content.paragraphs)
                js  == docx_to_json(doc.paragraphs)
            IN  IF ~doc.ok
                  THEN Fails(HTTPException(500, "format_docx")) /\ UNCHANGED json_data
                ELSE IF ~js.ok
                  THEN Fails(HTTPException(500, "docx_to_json")) /\ UNCHANGED json_data
                ELSE /\ json_data' = js.sections
                     /\ pc' = "upload_original"
                     /\ UNCHANGED <<raised, response>>
    /\ UNCHANGED <<request, attempt, optimized_json, rendered, events>>
    /\ UNCHANGED <<extract_vars, formatter_vars>>

\* supabase.storage.from_("resume_templates").upload(original_json_path, ...)
UploadOriginal(ok) ==
    /\ pc = "upload_original"
    /\ events' = Append(events, [op |-> "upload", what |-> "original", ok |-> ok,
                                 path |-> original_json_path(request.filename)])
    /\ IF ok
         THEN /\ pc' = "generate"
              /\ attempt' = 0
              /\ UNCHANGED <<raised, response>>
         ELSE Fails(HTTPException(500, "upload_original")) /\ UNCHANGED attempt
    /\ UNCHANGED <<request, json_data, optimized_json, rendered>>
    /\ UNCHANGED <<extract_vars, formatter_vars>>

\* ---- what model.generate_content can answer

REWRITTEN == [t |-> "dict", text |-> T_GO, style |-> "regular",
              formatting |-> [bold |-> FALSE, italic |-> FALSE]]
SomeString == [t |-> "str", chars |-> T_GO]

\* per section of the request: left out, returned as it was, rewritten, or
\* returned as something that is no {content: [...]} record
Modes == {"absent", "echo", "rewritten", "not_record"}

reply_value(original, mode) ==
    CASE mode = "echo"      -> original
      [] mode = "rewritten" -> section_entry(<<REWRITTEN>>)
      [] OTHER              -> SomeString

RECURSIVE reply_dict(_, _, _)
\* the first n sections of orig, each treated as mode[key] says
reply_dict(orig, mode, n) ==
    IF n = 0 THEN EmptyDict
    ELSE LET d == reply_dict(orig, mode, n - 1)
             k == orig.keys[n]
         IN  IF mode[k] = "absent" THEN d
             ELSE Put(d, k, reply_value(orig.val[n], mode[k]))

ReplySections(orig) ==
    {reply_dict(orig, mode, Len(orig.keys)) : mode \in [Keys(orig) -> Modes]}
      \cup {[t |-> "list", items |-> <<>>], [t |-> "list", items |-> <<SomeString>>],
            SomeString}

\* the JSON documents a reply can hold
JsonValues(orig) ==
    {[t |-> "list", items |-> <<>>], [t |-> "dict", metadata |-> SomeString]}
      \cup {[t |-> "dict", sections |-> v] : v \in ReplySections(orig)}

\* response.text: a body, bare or wrapped in a ```json or a plain ``` fence
Fences == {"none", "json", "plain"}
NoText == [fence |-> "none", body |-> [t |-> "nothing"]]
Texts_of(orig) ==
    {NoText} \cup
    {[fence |-> f, body |-> b] :
        f \in Fences, b \in {[t |-> "garbage"]} \cup JsonValues(orig)}

Replies(orig) ==
    {[raises |-> TRUE, text |-> NoText]}
      \cup {[raises |-> FALSE, text |-> x] : x \in Texts_of(orig)}

\* response.text.strip(), then re.sub(r'^```json\s*|\s*```$', '', response_text):
\* the closing fence goes, the opening one only when it is ```json
strip_code_fence(text) ==
    CASE text.fence = "json"  -> [text EXCEPT !.fence = "none"]
      [] text.fence = "plain" -> [text EXCEPT !.fence = "open"]
      [] OTHER                -> text

\* whether json.loads(response_text) returns
is_json(text) == text.fence = "none" /\ text.body.t \in {"dict", "list"}

\* isinstance(optimized_json, dict) and "sections" in optimized_json
has_sections(v) == v.t = "dict" /\ "sections" \in DOMAIN v

\* the body of the retry loop up to the exception handlers:
\* how it ends and what json.loads assigned to optimized_json, if it returned
rewrite_attempt(reply) ==
    IF reply.raises \/ reply.text = NoText
      THEN [result |-> "exception", assigned |-> FALSE, value |-> Unbound]
    ELSE LET text == strip_code_fence(reply.text)
         IN  IF ~is_json(text)
               THEN [result |-> "decode_error", assigned |-> FALSE, value |-> Unbound]
             ELSE IF ~has_sections(text.body)
               THEN [result |-> "exception", assigned |-> TRUE, value |-> text.body]
             ELSE [result |-> "break", assigned |-> TRUE, value |-> text.body]

\* attempt == max_retries - 1
is_last_attempt(a) == a = max_retries - 1

\* where "for attempt in range(max_retries)" goes once attempt a has failed
after_attempt(a) == IF a + 1 < max_retries THEN "generate" ELSE "upload_optimized"

\* one pass of the retry loop: model.generate_content and the handling of its answer
Generate(reply) ==
    /\ pc = "generate"
    /\ LET r == rewrite_attempt(reply)
       IN  /\ events' = Append(events, [op |-> "generate_content", attempt |-> attempt,
                                        ok |-> r.result = "break"])
           /\ optimized_json' = IF r.assigned THEN r.value ELSE optimized_json
           /\ IF r.result = "break"
                THEN /\ pc' = "upload_optimized"
                     /\ UNCHANGED <<attempt, raised, response>>
              ELSE IF is_last_attempt(attempt)
                THEN Fails(HTTPException(500, "generate")) /\ UNCHANGED attempt
              ELSE IF r.result = "decode_error"
                THEN /\ attempt' = attempt + 1
                     /\ pc' = after_attempt(attempt)
                     /\ UNCHANGED <<raised, response>>
              ELSE /\ pc' = "sleep"
                   /\ UNCHANGED <<attempt, raised, response>>
    /\ UNCHANGED <<request, json_data, rendered>>
    /\ UNCHANGED <<extract_vars, formatter_vars>>

\* time.sleep(retry_delay * (attempt + 1)), then the next pass
Sleep ==
    /\ pc = "sleep"
    /\ events' = Append(events, [op |-> "sleep", seconds |-> retry_delay * (attempt + 1)])
    /\ attempt' = attempt + 1
    /\ pc' = after_attempt(attempt)
    /\ UNCHANGED <<request, json_data, optimized_json, rendered, raised, response>>
    /\ UNCHANGED <<extract_vars, formatter_vars>>

\* variant: a failed upload of the optimized JSON is printed and passed over
UploadOptimizedSwallowed(ok) ==
    /\ pc = "upload_optimized"
    /\ IF optimized_json = Unbound
         THEN Fails(Exception("upload_optimized")) /\ UNCHANGED events
       ELSE /\ events' = Append(events, [op |-> "upload", what |-> "optimized", ok |-> ok,
                                        path |-> optimized_json_path(request.filename)])
            /\ pc' = "render" /\ UNCHANGED <<raised, response>>
    /\ UNCHANGED <<request, json_data, attempt, optimized_json, rendered>>
    /\ UNCHANGED <<extract_vars, formatter_vars>>

\* json.dumps(optimized_json), then the upload of the optimized JSON
UploadOptimized(ok) ==
    /\ pc = "upload_optimized"
    /\ IF optimized_json = Unbound
         THEN Fails(Exception("upload_optimized")) /\ UNCHANGED events
       ELSE /\ events' = Append(events, [op |-> "upload", what |-> "optimized", ok |-> ok,
                                        path |-> optimized_json_path(request.filename)])
            /\ IF ok
                 THEN pc' = "render" /\ UNCHANGED <<raised, response>>
                 ELSE Fails(Exception("upload_optimized"))
    /\ UNCHANGED <<request, json_data, attempt, optimized_json, rendered>>
    /\ UNCHANGED <<extract_vars, formatter_vars>>

\* the map process_resume hands to json_to_docx
final_sections == IF has_sections(optimized_json) THEN optimized_json.sections
                  ELSE [t |-> "None"]

\* output = json_to_docx(template_doc, optimized_json); render_ok is whether
\* template_doc.render and template_doc.save return
Render(render_ok) ==
    /\ pc = "render"
    /\ LET r == json_to_docx(final_sections)
       IN  /\ events' = Append(events, [op |-> "json_to_docx", arg |-> final_sections,
                                        ok |-> r.ok /\ render_ok])
           /\ IF r.ok /\ render_ok
                THEN /\ rendered' = r.context
                     /\ pc' = "insert"
                     /\ UNCHANGED <<raised, response>>
                ELSE Fails(HTTPException(500, "json_to_docx")) /\ UNCHANGED rendered
    /\ UNCHANGED <<request, json_data, attempt, optimized_json>>
    /\ UNCHANGED <<extract_vars, formatter_vars>>

\* the insert of the optimization record, whose failure is only printed, and
\* the StreamingResponse
InsertAndReturn(ok) ==
    /\ pc = "insert"
    /\ events' = Append(events, [op |-> "insert", status |-> "completed", ok |-> ok,
                                 original_resume_path |-> original_json_path(request.filename),
                                 optimized_resume_path |-> optimized_json_path(request.filename)])
    /\ response' = [status |-> 200, document |-> rendered,
                    attachment |-> <<"o","p","t","i","m","i","z","e","d","_">>
                                     \o safe_filename(request.filename)]
    /\ pc' = "done"
    /\ UNCHANGED <<request, json_data, attempt, optimized_json, rendered, raised>>
    /\ UNCHANGED <<extract_vars, formatter_vars>>

Next ==
    \/ ValidateRequest
    \/ ConvertDocument
    \/ \E ok \in BOOLEAN : UploadOriginal(ok)
    \/ \E reply \in Replies(json_data) : Generate(reply)
    \/ Sleep
    \/ \E ok \in BOOLEAN : UploadOptimized(ok)
    \/ \E render_ok \in BOOLEAN : Render(render_ok)
    \/ \E ok \in BOOLEAN : InsertAndReturn(ok)

Spec == Init /\ [][Next]_vars

-----------------------------------------------------------------------------
(* Properties of process_resume                                            *)

events_of(op) == {i \in DOMAIN events : events[i].op = op}

\* the upload is one the request should have refused
bad_extension == ~endswith(request.filename, DOCX_SUFFIX)
blank_job_description == strip(request.job_description) = <<>>
zero_bytes == request.content.empty

\* C1 (as claimed): a filename without the .docx extension or a zero-byte file
\* is answered with status 400, and 500 only answers downstream failures.
C1_InvalidUploadIs400 ==
    pc = "done" =>
        /\ (bad_extension \/ zero_bytes) => response.status = 400
        /\ response.status = 500 => raised.at # "validate"

StorageSteps == {"upload_original", "upload_optimized", "insert"}

\* C2 (as claimed): no failed storage write ends the request: a request that
\* does not return the document failed in a step that is not a storage write.
C2_StorageFailuresSwallowed ==
    pc = "done" => (response.status = 200 \/ raised.at \notin StorageSteps)

generate_calls == events_of("generate_content")

all_attempts_failed ==
    /\ Cardinality(generate_calls) = 3
    /\ \A i \in generate_calls : ~events[i].ok

later_steps ==
    {i \in DOMAIN events :
        \/ events[i].op \in {"json_to_docx", "insert"}
        \/ events[i].op = "upload" /\ events[i].what = "optimized"}

\* C3: generate_content is called at most 3 times per request; the retry loop
\* ends (inside it attempt stays below 3 and counts the calls made, so every
\* pass raises it or leaves the loop); and when all 3 attempts failed the
\* request ends with status 500 and without optimized upload, render,
\* optimization record or document.
C3_BoundedRetries ==
    /\ Cardinality(generate_calls) <= 3
    /\ pc \in {"generate", "sleep"} =>
          /\ attempt < 3
          /\ Cardinality(generate_calls) = attempt + (IF pc = "sleep" THEN 1 ELSE 0)
    /\ (pc = "done" /\ all_attempts_failed) =>
          /\ response.status = 500
          /\ "document" \notin DOMAIN response
          /\ later_steps = {}

\* C3 witness: three failed attempts, of which one got unparseable JSON
C3_Witness ==
    /\ pc = "done"
    /\ all_attempts_failed
    /\ events_of("sleep") # {}
    /\ Cardinality(events_of("sleep")) < 2

\* C4 (as claimed): the map handed to json_to_docx has every key of the
\* extracted map, with the original value for a key the reply left out.
C4_MissingKeysFallBack ==
    \A i \in events_of("json_to_docx") :
        events[i].arg.t = "dict" =>
            \A k \in Keys(json_data) :
                /\ HasKey(events[i].arg, k)
                /\ ~HasKey(optimized_json.sections, k) =>
                       Get(events[i].arg, k) = Get(json_data, k)

\* a reply of the shape of the request: sections is a mapping whose values are
\* {content: [...]} records of text items
well_shaped(v) ==
    /\ has_sections(v)
    /\ v.sections.t = "dict"
    /\ \A i \in DOMAIN v.sections.val :
          /\ is_valid_section(v.sections.val[i])
          /\ \A j \in DOMAIN v.sections.val[i].content :
                v.sections.val[i].content[j].t = "dict"

\* C5 (as claimed): a reply that is not of the shape of the request never
\* leads to a document, and no section of the reply is left out of the render.
C5_MalformedNeverSucceeds ==
    (pc = "done" /\ response.status = 200) =>
        /\ well_shaped(optimized_json)
        /\ \A k \in Keys(optimized_json.sections) :
              HasKey(response.document, template_var(k))

\* the request was refused as an invalid upload
rejected == pc = "done" /\ raised.exc = "HTTPException" /\ raised.status = 400

\* C10: when the upload is refused as invalid (extension, blank job
\* description, zero bytes) no storage upload, rewrite call or insert was made.
C10_NoSideEffectBeforeRejection == rejected => events = <<>>

\* C10 witness: a zero-byte .docx with a job description, refused
C10_Witness == rejected /\ zero_bytes /\ ~bad_extension /\ ~blank_job_description

-----------------------------------------------------------------------------
(* SpecFormatter: calls of process_and_save on one DocumentFormatter        *)

S_HEADING_1   == <<"H","e","a","d","i","n","g"," ","1">>
S_NORMAL      == <<"N","o","r","m","a","l">>
S_LIST_BULLET == <<"L","i","s","t"," ","B","u","l","l","e","t">>
HEADING_PREFIX == <<"H","e","a","d","i","n","g">>
DEFAULT_NAME    == <<"Y","o","u","r"," ","N","a","m","e">>
DEFAULT_CONTACT == <<"y","o","u","r",".","e","m","a","i","l","@","e","x","a","m","p","l","e",".","c","o","m">>
T_DASH == <<"-"," ","G","o">>

\* a paragraph of an input document: its style name and its text
Styled(style_name, text) == [style_name |-> style_name, text |-> text]

FormatterDocs ==
    { <<>>,
      << Styled(S_HEADING_1, T_SKILLS), Styled(S_NORMAL, T_PYTHON) >>,
      << Styled(S_NORMAL, T_NAME), Styled(S_HEADING_1, T_SUMMARY),
         Styled(S_NORMAL, T_BLANK), Styled(S_LIST_BULLET, T_BULLET) >>,
      << Styled(S_HEADING_1, T_NOTES), Styled(S_HEADING_1, <<>>),
         Styled(S_NORMAL, T_DASH) >> }

\* file_content: bytes that are no docx package, or a docx document
FormatterInputs ==
    {[valid |-> FALSE, paragraphs |-> <<>>]}
      \cup {[valid |-> TRUE, paragraphs |-> d] : d \in FormatterDocs}

MaxCalls == 3

\* the state of _extract_data_from_doc after the paragraphs ps
RECURSIVE extract_loop(_, _)
extract_loop(st, ps) ==
    IF ps = <<>> THEN st
    ELSE LET paragraph == Head(ps)
             next ==
                 IF startswith(paragraph.style_name, HEADING_PREFIX)
                   THEN [sections |->
                             IF st.current_section # <<>> /\ st.current_section # None
                               THEN Append(st.sections,
                                           [heading |-> st.current_section,
                                            content |-> st.current_content])
                               ELSE st.sections,
                         current_section |-> paragraph.text,
                         current_content |-> <<>>]
                 ELSE IF strip(paragraph.text) # <<>>
                   THEN [st EXCEPT !.current_content = Append(@, paragraph.text)]
                 ELSE st
         IN  extract_loop(next, Tail(ps))

\* DocumentFormatter._extract_data_from_doc
extract_data_from_doc(ps) ==
    LET st == extract_loop([sections |-> <<>>, current_section |-> None,
                            current_content |-> <<>>], ps)
    IN  [name |-> DEFAULT_NAME,
         contact_info |-> DEFAULT_CONTACT,
         sections |-> IF st.current_section # <<>> /\ st.current_section # None
                        THEN Append(st.sections, [heading |-> st.current_section,
                                                  content |-> st.current_content])
                        ELSE st.sections]

\* a paragraph of the document a ResumeFormatter builds
Out(text, style, bold, alignment) ==
    [text |-> text, style |-> style, bold |-> bold, alignment |-> alignment]

\* ResumeFormatter.add_header
add_header(doc, name, contact_info) ==
    doc \o << Out(name, S_NORMAL, TRUE, "center"),
              Out(contact_info, S_NORMAL, FALSE, "center") >>

\* ResumeFormatter.add_section, for content items that are str
add_section(doc, heading, content, style) ==
    doc \o <<Out(heading, S_HEADING_1, TRUE, "default")>>
        \o [i \in DOMAIN content |-> Out(content[i], style, FALSE, "default")]

RECURSIVE add_sections(_, _)
add_sections(doc, secs) ==
    IF secs = <<>> THEN doc
    ELSE add_sections(add_section(doc, Head(secs).heading, Head(secs).content,
                                  S_LIST_BULLET),
                      Tail(secs))

\* ResumeFormatter.create_resume on a formatter whose document is doc:
\* the document afterwards, which is also what is saved into the output
create_resume(doc, data) ==
    add_sections(add_header(doc, data.name, data.contact_info), data.sections)

InitFormatter ==
    /\ formatter_doc = <<>>
    /\ calls = 0
    /\ last_input = <<>>
    /\ last_output = [status |-> "none", document |-> <<>>]
    /\ ExtractIdle
    /\ RequestIdle

\* DocumentFormatter.process_and_save(file_content, original_filename)
ProcessAndSave(input, upload_ok) ==
    /\ calls < MaxCalls
    /\ calls' = calls + 1
    /\ last_input' = input.paragraphs
    /\ IF ~input.valid
         THEN /\ last_output' = [status |-> "error", document |-> <<>>]
              /\ UNCHANGED formatter_doc
         ELSE LET doc == create_resume(formatter_doc, extract_data_from_doc(input.paragraphs))
              IN  /\ formatter_doc' = doc
                  /\ last_output' = [status |-> IF upload_ok THEN "success" ELSE "error",
                                     document |-> doc]
    /\ UNCHANGED <<extract_vars, request_vars>>

NextFormatter == \E input \in FormatterInputs, upload_ok \in BOOLEAN :
                     ProcessAndSave(input, upload_ok)

SpecFormatter == InitFormatter /\ [][NextFormatter]_vars

\* C8 (as claimed): the document a call produces is the one a fresh
\* DocumentFormatter produces for the same input file.
C8_CallsIndependent ==
    last_output.status = "success" =>
        last_output.document = create_resume(<<>>, extract_data_from_doc(last_input))

\* the paragraphs a rebuild owes to the sections secs: per section its heading,
\* then its body lines
RECURSIVE owed_paragraphs(_)
owed_paragraphs(secs) ==
    IF secs = <<>> THEN <<>>
    ELSE <<[text |-> Head(secs).heading, heading |-> TRUE]>>
           \o [i \in DOMAIN Head(secs).content |->
                  [text |-> Head(secs).content[i], heading |-> FALSE]]
           \o owed_paragraphs(Tail(secs))

has_bullet_glyph(text) == startswith(text, <<BULLET>>) \/ startswith(text, <<"-">>)

\* C11 (as claimed): a rebuild on a fresh formatter writes, after the name and
\* contact paragraphs, one heading paragraph per section followed by one
\* paragraph per body line, in order, and gives the bullet-list style to a
\* body paragraph only if its line begins with a bullet glyph.
C11_RebuildBulletsOnlyForGlyphs ==
    (calls = 1 /\ last_output.status = "success") =>
        LET owed == owed_paragraphs(extract_data_from_doc(last_input).sections)
            body == SubSeq(last_output.document, 3, Len(last_output.document))
        IN  /\ Len(body) = Len(owed)
            /\ \A i \in DOMAIN owed :
                  /\ body[i].text = owed[i].text
                  /\ owed[i].heading <=> body[i].style = S_HEADING_1
                  /\ (~owed[i].heading /\ body[i].style = S_LIST_BULLET)
                        => has_bullet_glyph(owed[i].text)

\* C12 (as claimed): after a failed attempt that is not the last one, the next
\* thing the retry loop does is sleep; only then is generate_content called again.
C12_SleepAfterEveryFailure ==
    \A i \in generate_calls :
        (~events[i].ok /\ \E j \in generate_calls : j > i) =>
            events[i + 1].op = "sleep"

-----------------------------------------------------------------------------
(* Properties of the loop of docx_to_json                                  *)

\* the paragraph the loop has just handled, trimmed
handled_text == strip(paras[idx - 1].text)

\* the loop has just handled a heading line / a non-blank line that is none
after_heading == xpc = "loop" /\ idx > 1 /\ is_heading_line(handled_text)
after_body ==
    xpc = "loop" /\ idx > 1 /\ handled_text # <<>> /\ ~is_heading_line(handled_text)

\* lower-cased, one trailing colon removed, trimmed
trailing_colon_key(text) ==
    LET l == lower(text)
    IN  strip(IF endswith(l, <<":">>) THEN SubSeq(l, 1, Len(l) - 1) ELSE l)

\* C13 (as claimed): the key a heading opens is its trimmed text lower-cased,
\* with a trailing colon, and only that colon, removed, and trimmed.
C13_KeyDropsOnlyTrailingColon ==
    after_heading => current_section = trailing_colon_key(handled_text)

\* the heading lines among the lines that precede the paragraph just handled
earlier_lines == lines_of(SubSeq(paras, 1, idx - 2))
earlier_headings == {i \in DOMAIN earlier_lines : is_heading_line(earlier_lines[i])}

\* the key the paragraph just handled belongs under
owed_key ==
    IF earlier_headings = {} THEN HEADER_KEY
    ELSE section_key(earlier_lines[CHOOSE i \in earlier_headings :
                                       \A j \in earlier_headings : j <= i])

\* C14 (as claimed): a non-blank line that is no heading is filed under
\* "header" when no heading line precedes it, and under the key of the most
\* recent heading line otherwise.
C14_FiledUnderRecentHeading ==
    after_body =>
        /\ section_content # <<>>
        /\ section_content[Len(section_content)].text = handled_text
        /\ current_section = owed_key

\* the segments of a sequence of lines: 0 for the text before the first
\* heading line, and the position of every heading line
segments(ls) == {0} \cup {i \in DOMAIN ls : is_heading_line(ls[i])}

\* the lines between the start of segment i and the next of the segments segs
segment_body(ls, segs, i) ==
    LET later == {j \in segs : j > i}
        stop  == IF later = {} THEN Len(ls) + 1
                 ELSE CHOOSE j \in later : \A k \in later : j <= k
    IN  SubSeq(ls, i + 1, stop - 1)

\* the key the body of segment i is filed under
segment_key(ls, i) ==
    IF i = 0 \/ section_key(ls[i]) = <<>> THEN HEADER_KEY ELSE section_key(ls[i])

\* C15: every entry of the map, at every flush and on return, has a non-empty
\* body; the returned map has an entry exactly for the keys of headings that
\* have a body, and each entry holds the body of the last such heading: a
\* heading without body adds no entry and neither replaces nor empties one.
C15_BodylessHeadingLeavesNoTrace ==
    /\ \A i \in DOMAIN sections.val : sections.val[i].content # <<>>
    /\ xpc = "extracted" =>
          LET ls     == lines_of(paras)
              segs   == segments(ls)
              body   == [i \in segs |-> segment_body(ls, segs, i)]
              key    == [i \in segs |-> segment_key(ls, i)]
              bodied == {i \in segs : body[i] # <<>>}
          IN  /\ Keys(sections) = {key[i] : i \in bodied}
              /\ \A i \in bodied :
                     (\A j \in bodied : key[j] = key[i] => j <= i) =>
                         body_texts(Get(sections, key[i])) = body[i]

\* C15 witness: a heading with a body, then a heading without one, at the end
C15_Witness ==
    /\ xpc = "extracted"
    /\ LET ls == lines_of(paras)
       IN  /\ Len(ls) = 3
           /\ is_heading_line(ls[1]) /\ ~is_heading_line(ls[2]) /\ is_heading_line(ls[3])
           /\ section_key(ls[3]) # section_key(ls[1])
           /\ Keys(sections) = {section_key(ls[1])}

-----------------------------------------------------------------------------
(* Order of the side effects of process_resume                             *)

uploads_of(what) == {i \in events_of("upload") : events[i].what = what}
ended_in_error == pc = "done" /\ raised # NotRaised

\* C16: within one request the original JSON is uploaded before the first
\* rewrite call, the optimized JSON before rendering, and the 'completed'
\* record is inserted only after the original upload, the optimized upload
\* and the render have all succeeded, naming the two uploaded paths; a
\* request that ends in an error inserts no record, and no two uploads of a
\* request write the same path
C16_SideEffectOrder ==
    /\ \A g \in generate_calls :
          \E o \in uploads_of("original") : o < g /\ events[o].ok
    /\ \A r \in events_of("json_to_docx") :
          \E p \in uploads_of("optimized") : p < r /\ events[p].ok
    /\ \A n \in events_of("insert") :
          \E o \in uploads_of("original"), p \in uploads_of("optimized"),
             r \in events_of("json_to_docx") :
              /\ o < p /\ p < r /\ r < n
              /\ events[o].ok /\ events[p].ok /\ events[r].ok
              /\ events[n].original_resume_path = events[o].path
              /\ events[n].optimized_resume_path = events[p].path
    /\ ended_in_error => events_of("insert") = {}
    /\ \A i, j \in events_of("upload") : i # j => events[i].path # events[j].path

\* C16 witness: a request that went through both uploads, the render and the insert
C16_Witness ==
    /\ pc = "done" /\ response.status = 200
    /\ uploads_of("original") # {} /\ uploads_of("optimized") # {}
    /\ \E n \in events_of("insert") : events[n].ok

\* C16 witness of the error case: the optimized upload failed after the original was stored
C16_WitnessError ==
    /\ ended_in_error
    /\ \E o \in uploads_of("original") : events[o].ok
    /\ \E p \in uploads_of("optimized") : ~events[p].ok


====
